---- MODULE Spec2Model ----
(***************************************************************************)
(* Model of the accept-header crate: MediaType parsing, ordering and       *)
(* formatting (src/src/media_type.rs), Accept parsing, formatting and      *)
(* content negotiation (src/src/accept.rs).                                *)
(*                                                                         *)
(* A header text is a sequence of lexical tokens (strings): "," and ";"    *)
(* are the two separators the code splits on, " " is whitespace that       *)
(* trim() removes, "q=" is the prefix strip_prefix looks for, and the      *)
(* other tokens are the texts handed to Mime::from_str and f32::from_str.  *)
(* A weight (f32 in the code) is an integer number of tenths; the range    *)
(* check rejects NaN, so every stored weight is an ordinary number.        *)
(***************************************************************************)
EXTENDS Integers, Sequences, FiniteSets, TLC

VARIABLES pc, input, accept, available, negotiated, text, reparsed

vars == <<pc, input, accept, available, negotiated, text, reparsed>>

\* Largest number of comma-separated segments in a header under check.
MaxSegs == 3

-----------------------------------------------------------------------------
\* Option<T> and Result<T, E>

None == <<>>
Some(x) == <<x>>
IsSome(o) == o # <<>>
Unwrap(o) == o[1]

Ok(v) == [tag |-> "Ok", val |-> v]
Err(e) == [tag |-> "Err", val |-> e]
IsOk(r) == r.tag = "Ok"
IsErr(r) == r.tag = "Err"

-----------------------------------------------------------------------------
\* The mime crate: Mime values, Mime::from_str, Display, type_()

Mime(t, s) == [type |-> t, subtype |-> s]

STAR == "*"
TEXT_HTML == Mime("text", "html")
APPLICATION_JSON == Mime("application", "json")
TEXT_PLAIN == Mime("text", "plain")
APPLICATION_XML == Mime("application", "xml")
STAR_STAR == Mime("*", "*")

\* Texts that Mime::from_str accepts, with the value each parses to.
MimeTable ==
    ("text/html" :> TEXT_HTML) @@ ("application/json" :> APPLICATION_JSON) @@
    ("text/plain" :> TEXT_PLAIN) @@ ("application/xml" :> APPLICATION_XML) @@
    ("*/*" :> STAR_STAR)

\* v.parse::<Mime>() on a trimmed token sequence: one well-formed token.
MimeFromStr(v) ==
    IF Len(v) = 1 /\ v[1] \in DOMAIN MimeTable
    THEN Ok(MimeTable[v[1]])
    ELSE Err("FromStrError")

\* Display for Mime
MimeToString(m) == m.type \o "/" \o m.subtype

-----------------------------------------------------------------------------
\* f32: weights in tenths. Texts f32::from_str accepts, and Display for f32.

F32Table ==
    ("0" :> 0) @@ ("0.5" :> 5) @@ ("0.6" :> 6) @@ ("0.7" :> 7) @@ ("0.8" :> 8) @@
    ("0.9" :> 9) @@ ("1" :> 10) @@ ("1.0" :> 10) @@ ("1.5" :> 15) @@ ("-0.5" :> -5)

F32FromStr(v) ==
    IF Len(v) = 1 /\ v[1] \in DOMAIN F32Table
    THEN Ok(F32Table[v[1]])
    ELSE Err("ParseFloatError")

\* Display prints the shortest text that parses back: 1.0 prints as "1".
F32ToString(w) ==
    CASE w = 0 -> "0"
      [] w = 10 -> "1"
      [] w = 15 -> "1.5"
      [] w = -5 -> "-0.5"
      [] OTHER -> CHOOSE t \in {"0.5", "0.6", "0.7", "0.8", "0.9"} : F32Table[t] = w

\* (0.0..=1.0).contains(&weight)
WeightMin == 0
WeightMax == 10
InWeightRange(w) == WeightMin <= w /\ w <= WeightMax

-----------------------------------------------------------------------------
\* str::trim and str::split on token sequences

RECURSIVE TrimStart(_)
TrimStart(s) ==
    IF s # <<>> /\ Head(s) = " " THEN TrimStart(Tail(s)) ELSE s

RECURSIVE TrimEnd(_)
TrimEnd(s) ==
    IF s # <<>> /\ s[Len(s)] = " " THEN TrimEnd(SubSeq(s, 1, Len(s) - 1)) ELSE s

Trim(s) == TrimEnd(TrimStart(s))

\* s.split(sep): the pieces between separators; always at least one piece.
RECURSIVE SplitFrom(_, _, _, _)
SplitFrom(s, sep, cur, acc) ==
    IF s = <<>> THEN Append(acc, cur)
    ELSE IF Head(s) = sep THEN SplitFrom(Tail(s), sep, <<>>, Append(acc, cur))
    ELSE SplitFrom(Tail(s), sep, Append(cur, Head(s)), acc)

Split(s, sep) == SplitFrom(s, sep, <<>>, <<>>)

\* str::strip_prefix("q=")
StripPrefixQ(s) ==
    IF s # <<>> /\ Head(s) = "q=" THEN Some(Tail(s)) ELSE None

-----------------------------------------------------------------------------
\* MediaType (src/src/lib.rs) and its impls (src/src/media_type.rs)

MediaType(m, w) == [mime |-> m, weight |-> w]

\* impl FromStr for MediaType
MediaTypeFromStr(s) ==
    LET parts == Split(s, ";")
        v == Trim(parts[1])
        mime == MimeFromStr(v)
    IN  IF IsErr(mime) THEN Err([kind |-> "MediaType", value |-> v])
        ELSE LET q == IF Len(parts) >= 2 THEN StripPrefixQ(Trim(parts[2])) ELSE None
             IN  IF ~IsSome(q) THEN Ok(MediaType(mime.val, None))
                 ELSE LET weight == F32FromStr(Trim(Unwrap(q)))
                      IN  IF IsErr(weight)
                          THEN Err([kind |-> "ParseWeight", value |-> Unwrap(q)])
                          ELSE IF ~InWeightRange(weight.val)
                          THEN Err([kind |-> "WeightRange", value |-> weight.val])
                          ELSE Ok(MediaType(mime.val, Some(weight.val)))

\* impl From<Mime> for MediaType
MediaTypeFrom(mime) == MediaType(mime, None)

\* f32::partial_cmp on numbers (no NaN is ever stored)
F32PartialCmp(l, r) ==
    Some(IF l < r THEN "Less" ELSE IF l > r THEN "Greater" ELSE "Equal")

\* impl PartialOrd for MediaType
PartialCmp(a, b) ==
    CASE IsSome(a.weight) /\ IsSome(b.weight) ->
            F32PartialCmp(Unwrap(a.weight), Unwrap(b.weight))
      [] IsSome(a.weight) /\ ~IsSome(b.weight) -> Some("Greater")
      [] ~IsSome(a.weight) /\ IsSome(b.weight) -> Some("Less")
      [] OTHER -> Some("Equal")

\* impl fmt::Display for MediaType
MediaTypeToString(m) ==
    <<MimeToString(m.mime)>> \o
    (IF IsSome(m.weight) THEN <<";", "q=", F32ToString(Unwrap(m.weight))>> ELSE <<>>)

-----------------------------------------------------------------------------
\* Accept (src/src/lib.rs) and its impls (src/src/accept.rs)

Accept(w, t) == [wildcard |-> w, types |-> t]

\* Variant of SortCmp with the operands the other way round (ascending order).
SortCmpAscending(a, b) ==
    LET c == PartialCmp(a, b) IN IF IsSome(c) THEN Unwrap(c) ELSE "Equal"

\* The closure given to sort_by: |a, b| b.partial_cmp(a).unwrap_or(Equal)
SortCmp(a, b) ==
    LET c == PartialCmp(b, a) IN IF IsSome(c) THEN Unwrap(c) ELSE "Equal"

\* One step of a stable sort: x, the later element, goes behind every element
\* that does not compare Greater than it.
RECURSIVE InsertSorted(_, _)
InsertSorted(sorted, x) ==
    IF sorted = <<>> THEN <<x>>
    ELSE IF SortCmp(Head(sorted), x) = "Greater" THEN <<x>> \o sorted
    ELSE <<Head(sorted)>> \o InsertSorted(Tail(sorted), x)

\* Vec::sort_by (stable) with SortCmp
RECURSIVE SortFrom(_, _)
SortFrom(rest, sorted) ==
    IF rest = <<>> THEN sorted
    ELSE SortFrom(Tail(rest), InsertSorted(sorted, Head(rest)))

SortBy(v) == SortFrom(v, <<>>)

\* Variant of ScanParts that keeps the first wildcard segment it meets.
RECURSIVE ScanPartsFirstWildcard(_, _, _)
ScanPartsFirstWildcard(parts, types, wildcard) ==
    IF parts = <<>> THEN Ok(Accept(wildcard, types))
    ELSE LET mtype == MediaTypeFromStr(Trim(Head(parts)))
         IN  IF IsErr(mtype) THEN mtype
             ELSE IF mtype.val.mime.type = STAR
             THEN ScanPartsFirstWildcard(Tail(parts), types,
                                         IF IsSome(wildcard) THEN wildcard
                                         ELSE Some(mtype.val))
             ELSE ScanPartsFirstWildcard(Tail(parts), Append(types, mtype.val), wildcard)

\* Variant of ScanParts that skips a segment that fails to parse.
RECURSIVE ScanPartsSkipErrors(_, _, _)
ScanPartsSkipErrors(parts, types, wildcard) ==
    IF parts = <<>> THEN Ok(Accept(wildcard, types))
    ELSE LET mtype == MediaTypeFromStr(Trim(Head(parts)))
         IN  IF IsErr(mtype) THEN ScanPartsSkipErrors(Tail(parts), types, wildcard)
             ELSE IF mtype.val.mime.type = STAR
             THEN ScanPartsSkipErrors(Tail(parts), types, Some(mtype.val))
             ELSE ScanPartsSkipErrors(Tail(parts), Append(types, mtype.val), wildcard)

\* The loop of Accept::from_str over the comma-separated parts; `?` returns
\* the first error.
RECURSIVE ScanParts(_, _, _)
ScanParts(parts, types, wildcard) ==
    IF parts = <<>> THEN Ok(Accept(wildcard, types))
    ELSE LET mtype == MediaTypeFromStr(Trim(Head(parts)))
         IN  IF IsErr(mtype) THEN mtype
             ELSE IF mtype.val.mime.type = STAR
             THEN ScanParts(Tail(parts), types, Some(mtype.val))
             ELSE ScanParts(Tail(parts), Append(types, mtype.val), wildcard)

\* Variant of AcceptFromStr that puts the wildcard's weight on every entry
\* that has none, before sorting.
AcceptFromStrCascade(s) ==
    LET scanned == ScanParts(Split(s, ","), <<>>, None)
    IN  IF IsErr(scanned) THEN scanned
        ELSE LET w == scanned.val.wildcard
                 t == scanned.val.types
                 cascaded ==
                    IF IsSome(w) /\ IsSome(Unwrap(w).weight)
                    THEN [i \in 1..Len(t) |->
                            IF IsSome(t[i].weight) THEN t[i]
                            ELSE MediaType(t[i].mime, Unwrap(w).weight)]
                    ELSE t
             IN  Ok(Accept(w, SortBy(cascaded)))

\* impl FromStr for Accept
AcceptFromStr(s) ==
    LET scanned == ScanParts(Split(s, ","), <<>>, None)
    IN  IF IsErr(scanned) THEN scanned
        ELSE Ok(Accept(scanned.val.wildcard, SortBy(scanned.val.types)))

\* impl From<Mime> for Accept
AcceptFrom(mime) == Accept(None, <<MediaTypeFrom(mime)>>)

\* itertools join(", ") of the entries' texts
RECURSIVE JoinTypes(_)
JoinTypes(types) ==
    IF types = <<>> THEN <<>>
    ELSE IF Len(types) = 1 THEN MediaTypeToString(Head(types))
    ELSE MediaTypeToString(Head(types)) \o <<",", " ">> \o JoinTypes(Tail(types))

\* impl fmt::Display for Accept
AcceptToString(a) ==
    JoinTypes(a.types) \o
    (IF IsSome(a.wildcard)
     THEN <<",", " ">> \o MediaTypeToString(Unwrap(a.wildcard))
     ELSE <<>>)

NOT_ACCEPTABLE == 406

\* The for loop of Accept::negotiate: the first entry whose mime is available.
RECURSIVE FirstMatch(_, _)
FirstMatch(types, avail) ==
    IF types = <<>> THEN None
    ELSE IF Head(types).mime \in avail THEN Some(Head(types).mime)
    ELSE FirstMatch(Tail(types), avail)

\* Variant of Negotiate that tries the wildcard's text/html before the entries.
NegotiateHtmlFirst(a, avail) ==
    LET hit == FirstMatch(a.types, avail)
    IN  IF IsSome(a.wildcard) /\ TEXT_HTML \in avail THEN {Ok(TEXT_HTML)}
        ELSE IF IsSome(hit) THEN {Ok(Unwrap(hit))}
        ELSE IF IsSome(a.wildcard) /\ avail # {} THEN {Ok(m) : m \in avail}
        ELSE {Err(NOT_ACCEPTABLE)}

\* Variant of Negotiate that falls back whether or not a wildcard was sent.
NegotiateAlwaysFallback(a, avail) ==
    LET hit == FirstMatch(a.types, avail)
    IN  IF IsSome(hit) THEN {Ok(Unwrap(hit))}
        ELSE IF TEXT_HTML \in avail THEN {Ok(TEXT_HTML)}
        ELSE IF avail # {} THEN {Ok(m) : m \in avail}
        ELSE {Err(NOT_ACCEPTABLE)}

\* Variant of Negotiate whose fallback does not look for text/html.
NegotiateNoHtml(a, avail) ==
    LET hit == FirstMatch(a.types, avail)
    IN  IF IsSome(hit) THEN {Ok(Unwrap(hit))}
        ELSE IF IsSome(a.wildcard) /\ avail # {} THEN {Ok(m) : m \in avail}
        ELSE {Err(NOT_ACCEPTABLE)}

\* Accept::negotiate: every value the call may return. The iteration order of
\* a HashSet is unspecified, so available.iter().next() is any member.
Negotiate(a, avail) ==
    LET hit == FirstMatch(a.types, avail)
    IN  IF IsSome(hit) THEN {Ok(Unwrap(hit))}
        ELSE IF IsSome(a.wildcard) /\ TEXT_HTML \in avail THEN {Ok(TEXT_HTML)}
        ELSE IF IsSome(a.wildcard) /\ avail # {} THEN {Ok(m) : m \in avail}
        ELSE {Err(NOT_ACCEPTABLE)}

-----------------------------------------------------------------------------
\* Inputs

\* The comma-separated segments headers are built from.
Segments == {
    <<"application/json">>,
    <<" ", "text/html", ";", "q=", "0.9">>,
    <<" ", "text/plain", ";", "q=", "0.8">>,
    <<"application/json", ";", "q=", "0.9">>,
    <<"application/json", ";", "q=", "1.0">>,
    <<"text/html", ";", " ", "q=", " ", "0.5", " ">>,
    <<"text/plain", ";", "charset=utf-8", ";", "q=", "0.5">>,
    <<"*/*">>,
    <<" ", "*/*", ";", "q=", "0.7">>,
    <<"*/*", ";", "q=", "0.6">>,
    <<"text/html", ";", "q=", "abcd">>,
    <<"text/plain", ";", "q=", "1.5">>,
    <<"text/plain", ";", "q=", "-0.5">>,
    <<"text">>,
    <<>> }

RECURSIVE JoinSegs(_)
JoinSegs(segs) ==
    IF Len(segs) = 1 THEN segs[1]
    ELSE segs[1] \o <<",">> \o JoinSegs(Tail(segs))

Headers == { JoinSegs(segs) : segs \in UNION { [1..n -> Segments] : n \in 1..MaxSegs } }

Mimes == { MimeTable[t] : t \in DOMAIN MimeTable }

\* Representations a server offers.
AvailableMimes == { TEXT_HTML, APPLICATION_JSON, TEXT_PLAIN, APPLICATION_XML }

Pending == [tag |-> "Pending"]

-----------------------------------------------------------------------------
\* State machine: one call of a constructor, then negotiate, or to_string
\* followed by a parse of the text it produced.

Init ==
    /\ pc = "start"
    /\ input \in { [kind |-> "str", s |-> h] : h \in Headers }
              \cup { [kind |-> "mime", mime |-> m] : m \in Mimes }
    /\ accept = Pending
    /\ available = {}
    /\ negotiated = Pending
    /\ text = <<>>
    /\ reparsed = Pending

\* header.parse::<Accept>()
FromStr ==
    /\ pc = "start"
    /\ input.kind = "str"
    /\ accept' = AcceptFromStr(input.s)
    /\ pc' = IF IsOk(accept') THEN "built" ELSE "failed"
    /\ UNCHANGED <<input, available, negotiated, text, reparsed>>

\* Accept::from(mime)
From ==
    /\ pc = "start"
    /\ input.kind = "mime"
    /\ accept' = Ok(AcceptFrom(input.mime))
    /\ pc' = "built"
    /\ UNCHANGED <<input, available, negotiated, text, reparsed>>

\* accept.negotiate(&available)
NegotiateCall ==
    /\ pc = "built"
    /\ \E avail \in SUBSET AvailableMimes :
          /\ available' = avail
          /\ negotiated' \in Negotiate(accept.val, avail)
    /\ pc' = "negotiated"
    /\ UNCHANGED <<input, accept, text, reparsed>>

\* accept.to_string()
ToStringCall ==
    /\ pc = "built"
    /\ text' = AcceptToString(accept.val)
    /\ pc' = "formatted"
    /\ UNCHANGED <<input, accept, available, negotiated, reparsed>>

\* accept.to_string().parse::<Accept>()
Reparse ==
    /\ pc = "formatted"
    /\ reparsed' = AcceptFromStr(text)
    /\ pc' = "reparsed"
    /\ UNCHANGED <<input, accept, available, negotiated, text>>

Next == FromStr \/ From \/ NegotiateCall \/ ToStringCall \/ Reparse

Spec == Init /\ [][Next]_vars

-----------------------------------------------------------------------------

\* Vocabulary of the properties

\* A constructor has returned the Accept.
Built == pc = "built"

\* ... and the constructor was Accept::from_str.
Parsed == pc = "built" /\ input.kind = "str"

Types == accept.val.types
Wildcard == accept.val.wildcard

\* What each comma-separated segment of the header parses to on its own.
RECURSIVE ParseEach(_)
ParseEach(parts) ==
    IF parts = <<>> THEN <<>>
    ELSE <<MediaTypeFromStr(Trim(Head(parts)))>> \o ParseEach(Tail(parts))

PartResults == ParseEach(Split(input.s, ","))

IsStar(r) == IsOk(r) /\ r.val.mime.type = STAR

\* The segments that are not wildcards, as MediaTypes, in header order.
RECURSIVE OwnOf(_)
OwnOf(results) ==
    IF results = <<>> THEN <<>>
    ELSE (IF IsStar(Head(results)) THEN <<>> ELSE <<Head(results).val>>)
         \o OwnOf(Tail(results))

CountIn(seq, x) == Cardinality({ i \in 1..Len(seq) : seq[i] = x })

NoMatch == \A i \in 1..Len(Types) : Types[i].mime \notin available

\* negotiate went past the loop and took the wildcard branch with something
\* to choose from.
Fallback ==
    pc = "negotiated" /\ NoMatch /\ IsSome(Wildcard) /\ available # {}

WeightedWildcard == IsSome(Wildcard) /\ IsSome(Unwrap(Wildcard).weight)

-----------------------------------------------------------------------------
\* C1: whenever some entry of `types` has its mime in `available`, negotiate
\* returns Ok with the mime of the first such entry in stored order, with or
\* without a wildcard.
C1_FirstMatchWins ==
    pc = "negotiated" =>
        \A i \in 1..Len(Types) :
            (/\ Types[i].mime \in available
             /\ \A j \in 1..(i - 1) : Types[j].mime \notin available)
            => (IsOk(negotiated) /\ negotiated.val = Types[i].mime)

\* A wildcard is present, text/html is available, and the first match is the
\* second entry, which is not text/html.
C1_Witness ==
    /\ pc = "negotiated"
    /\ IsSome(Wildcard)
    /\ Len(Types) >= 2
    /\ Types[1].mime \notin available
    /\ Types[2].mime \in available
    /\ Types[2].mime # TEXT_HTML
    /\ TEXT_HTML \in available
    /\ IsOk(negotiated) /\ negotiated.val = Types[2].mime

\* C2: negotiate returns Err(NOT_ACCEPTABLE) exactly when nothing matches and
\* the wildcard is absent or `available` is empty; otherwise Ok of a member of
\* `available`.
C2_NotAcceptableIff ==
    pc = "negotiated" =>
        /\ IsErr(negotiated) <=> (NoMatch /\ (~IsSome(Wildcard) \/ available = {}))
        /\ IsErr(negotiated) => negotiated.val = NOT_ACCEPTABLE
        /\ IsOk(negotiated) => negotiated.val \in available

\* Wildcard present, only application/xml available: application/xml is chosen.
C2_Witness ==
    /\ pc = "negotiated"
    /\ input.kind = "str"
    /\ IsSome(Wildcard)
    /\ Types # <<>>
    /\ available = {APPLICATION_XML}
    /\ IsOk(negotiated) /\ negotiated.val = APPLICATION_XML

\* C3: in a parsed Accept every entry without a weight precedes every entry
\* with an explicit weight.
C3_UnweightedFirst ==
    Parsed =>
        \A i, j \in 1..Len(Types) :
            (~IsSome(Types[i].weight) /\ IsSome(Types[j].weight)) => i < j

\* C4 as stated: with a weighted wildcard w in the header, `types` is the
\* non-wildcard segments with w put on every one that had no weight, so no
\* entry of `types` is without a weight.
Cascaded(m, w) == IF IsSome(m.weight) THEN m ELSE MediaType(m.mime, w)

C4_Cascade ==
    (Parsed /\ WeightedWildcard) =>
        LET own == OwnOf(PartResults)
            w == Unwrap(Wildcard).weight
            types == Types
        IN  /\ \A i \in 1..Len(types) : IsSome(types[i].weight)
            /\ \A k \in 1..Len(own) :
                  CountIn(types, Cascaded(own[k], w)) =
                  Cardinality({ n \in 1..Len(own) :
                                  Cascaded(own[n], w) = Cascaded(own[k], w) })

\* C4 amended: the wildcard's weight is not handed on; the entries of `types`
\* without a weight are exactly the non-wildcard segments written without one.
C4_NoCascade ==
    (Parsed /\ WeightedWildcard) =>
        LET own == OwnOf(PartResults)
            types == Types
        IN  \A m \in Mimes :
                CountIn(types, MediaType(m, None)) = CountIn(own, MediaType(m, None))

\* A weighted wildcard next to an entry that still has no weight.
C4_Witness ==
    /\ Parsed
    /\ WeightedWildcard
    /\ \E i \in 1..Len(Types) : ~IsSome(Types[i].weight)
    /\ \E i \in 1..Len(Types) : IsSome(Types[i].weight)

\* C5 as stated: in the fallback with text/html and another type available,
\* every member of `available` is a possible result.
C5_NoHtmlPreference ==
    (Fallback /\ TEXT_HTML \in available /\ Cardinality(available) >= 2) =>
        \A m \in available : Ok(m) \in Negotiate(accept.val, available)

\* C5 amended: the fallback returns text/html when it is available, and
\* otherwise any member of `available`.
C5_HtmlPreferred ==
    Fallback =>
        /\ TEXT_HTML \in available => negotiated = Ok(TEXT_HTML)
        /\ TEXT_HTML \notin available =>
              /\ IsOk(negotiated) /\ negotiated.val \in available
              /\ Negotiate(accept.val, available) = { Ok(m) : m \in available }

\* The fallback with text/html and another type available.
C5_Witness ==
    /\ Fallback
    /\ TEXT_HTML \in available
    /\ Cardinality(available) >= 2
    /\ negotiated = Ok(TEXT_HTML)

\* C6: parsing the text of a parsed Accept succeeds and gives the same Accept.
C6_RoundTrip ==
    (pc = "reparsed" /\ input.kind = "str") =>
        (IsOk(reparsed) /\ reparsed.val = accept.val)

\* C7: `types` holds no entry of type `*`, and `wildcard`, when present, is of
\* type `*`, whichever constructor built the Accept.
C7_WildcardSeparation ==
    Built =>
        /\ \A i \in 1..Len(Types) : Types[i].mime.type # STAR
        /\ IsSome(Wildcard) => Unwrap(Wildcard).mime.type = STAR

\* C8: `wildcard` is the last wildcard segment of the header, or None when
\* there is none, and `types` is the non-wildcard segments as a multiset.
C8_LastWildcardWins ==
    Parsed =>
        LET res == PartResults
            own == OwnOf(res)
            types == Types
            stars == { i \in 1..Len(res) : IsStar(res[i]) }
        IN  /\ stars = {} => Wildcard = None
            /\ stars # {} =>
                  Wildcard = Some(res[CHOOSE i \in stars : \A j \in stars : j <= i].val)
            /\ Len(types) = Len(own)
            /\ \A k \in 1..Len(own) : CountIn(types, own[k]) = CountIn(own, own[k])

\* Two wildcard segments of different weight, the last one kept.
C8_Witness ==
    /\ Parsed
    /\ Types # <<>>
    /\ LET res == PartResults
       IN  \E i, j \in 1..Len(res) :
              /\ i < j
              /\ IsStar(res[i]) /\ IsStar(res[j])
              /\ res[i].val # res[j].val
              /\ Wildcard = Some(res[j].val)

\* C9: from_str fails exactly when some segment fails to parse, with the error
\* of the leftmost such segment, and the weights of a parsed Accept are within
\* [0.0, 1.0].
SameError(a, b) == a.kind = b.kind /\ a.value = b.value

WeightOk(m) ==
    IsSome(m.weight) => (WeightMin <= Unwrap(m.weight) /\ Unwrap(m.weight) <= WeightMax)

C9_FailFast ==
    (input.kind = "str" /\ pc \in {"built", "failed"}) =>
        LET res == PartResults
            bad == { i \in 1..Len(res) : IsErr(res[i]) }
        IN  /\ IsErr(accept) <=> bad # {}
            /\ bad # {} =>
                  SameError(accept.val, res[CHOOSE i \in bad : \A j \in bad : i <= j].val)
            /\ IsOk(accept) =>
                  /\ \A i \in 1..Len(Types) : WeightOk(Types[i])
                  /\ IsSome(Wildcard) => WeightOk(Unwrap(Wildcard))

\* A good segment, then two segments failing in different ways; the error is
\* the first one's.
C9_Witness ==
    /\ pc = "failed"
    /\ LET res == PartResults
       IN  /\ Len(res) >= 3
           /\ IsOk(res[1])
           /\ IsErr(res[2]) /\ IsErr(res[3])
           /\ res[2].val.kind # res[3].val.kind
           /\ SameError(accept.val, res[2].val)

\* C10: `types` is the stable descending sort of the non-wildcard segments:
\* explicit weights in numeric order, an explicit weight above an absent one,
\* and entries that compare equal in header order.
Rank(m) == IF IsSome(m.weight) THEN Unwrap(m.weight) ELSE -1

====
